---- MODULE Spec2Model ----
(***************************************************************************)
(* Model of go-postmangen (package postmangen): PostmanGen.Register and    *)
(* its helpers walkStructFields and TypeZeroValue, AddPlaceholder and      *)
(* AddVariable.                                                            *)
(*                                                                         *)
(* Go strings are sequences of one-character strings, so that Trim, Split, *)
(* Join, HasPrefix, TrimPrefix and fmt.Sprint are computed and not assumed.*)
(* A reflect.Type is its descriptor; a Go value of type any is a record     *)
(* tagged with its dynamic kind.                                           *)
(***************************************************************************)
EXTENDS Integers, Sequences, FiniteSets, TLC

VARIABLES Items, Variables, placeholderDefaults, last, history, calls, walk

vars == <<Items, Variables, placeholderDefaults, last, history, calls, walk>>

(***************************************************************************)
(* Bounds of the model.                                                    *)
(***************************************************************************)
\* Register calls per run of the tree specification (Spec).
MaxCalls == 2
\* Register calls per run of the request-compilation specification (SpecFields).
MaxFieldCalls == 1
\* AddPlaceholder calls per run.
MaxPlaceholders == 2
\* AddVariable calls per run.
MaxVariables == 1
\* Walks per run of the field-walk specification (SpecWalk).
MaxWalks == 2
\* Frames of walkStructFields the goroutine stack holds: the call that would
\* need one more ends the program with the runtime's fatal stack overflow.
MaxDepth == 3

(***************************************************************************)
(* Strings.                                                                *)
(***************************************************************************)
Empty == <<>>
Dash == <<"-">>
Slash == <<"/">>
Colon == <<":">>

\* The characters the model uses, in byte order (Go compares strings bytewise).
ByteOrder ==
  << "\"", ",", "-", "/", "0", "1", "2", "3", "4", "5", "6", "7", "8", "9",
     ":", "<", ">", "A", "B", "C", "D", "E", "F", "G", "I", "K", "L", "N",
     "O", "P", "Q", "S", "T", "U", "X", "[", "]", "_", "a", "b", "c", "d",
     "e", "f", "g", "h", "i", "j", "k", "l", "m", "n", "o", "p", "q", "r",
     "s", "t", "u", "v", "w", "x", "y", "z", "{", "}" >>

Ord(c) == CHOOSE i \in 1..Len(ByteOrder) : ByteOrder[i] = c

RECURSIVE StrLess(_, _)
\* a < b on Go strings.
StrLess(a, b) ==
  IF b = <<>> THEN FALSE
  ELSE IF a = <<>> THEN TRUE
  ELSE IF Head(a) = Head(b) THEN StrLess(Tail(a), Tail(b))
  ELSE Ord(Head(a)) < Ord(Head(b))

RECURSIVE TrimLeft(_, _)
TrimLeft(s, c) ==
  IF s # <<>> /\ Head(s) = c THEN TrimLeft(Tail(s), c) ELSE s

RECURSIVE TrimRight(_, _)
TrimRight(s, c) ==
  IF s # <<>> /\ s[Len(s)] = c THEN TrimRight(SubSeq(s, 1, Len(s) - 1), c) ELSE s

\* strings.Trim(s, cutset) for a one-character cutset.
Trim(s, c) == TrimRight(TrimLeft(s, c), c)

RECURSIVE SplitFrom(_, _, _)
\* The segments of s after its prefix cur, cur being the segment under way.
SplitFrom(s, c, cur) ==
  IF s = <<>> THEN <<cur>>
  ELSE IF Head(s) = c THEN <<cur>> \o SplitFrom(Tail(s), c, <<>>)
  ELSE SplitFrom(Tail(s), c, Append(cur, Head(s)))

\* strings.Split(s, sep) for a one-character sep: always at least one segment.
Split(s, c) == SplitFrom(s, c, <<>>)

RECURSIVE Join(_, _)
\* strings.Join(elems, sep)
Join(elems, sep) ==
  IF elems = <<>> THEN <<>>
  ELSE IF Len(elems) = 1 THEN elems[1]
  ELSE elems[1] \o sep \o Join(Tail(elems), sep)

\* strings.HasPrefix(s, ":")
HasPrefix(s, p) == Len(s) >= Len(p) /\ SubSeq(s, 1, Len(p)) = p

\* strings.TrimPrefix(s, ":")
TrimPrefix(s, p) == IF HasPrefix(s, p) THEN SubSeq(s, Len(p) + 1, Len(s)) ELSE s

Digits == <<"0", "1", "2", "3", "4", "5", "6", "7", "8", "9">>

RECURSIVE Itoa(_)
\* The decimal text of a natural number.
Itoa(n) == IF n < 10 THEN <<Digits[n + 1]>> ELSE Itoa(n \div 10) \o <<Digits[(n % 10) + 1]>>


(***************************************************************************)
(* Sample strings: tag values, paths and methods of the registered routes. *)
(***************************************************************************)
S_users == <<"u", "s", "e", "r", "s">>
S_userId == <<"u", "s", "e", "r", "I", "d">>
S_picture == <<"p", "i", "c", "t", "u", "r", "e">>
S_username == <<"u", "s", "e", "r", "n", "a", "m", "e">>
S_is_admin == <<"i", "s", "_", "a", "d", "m", "i", "n">>
S_age == <<"a", "g", "e">>
S_joe == <<"j", "o", "e">>
S_false == <<"f", "a", "l", "s", "e">>
S_full == <<"f", "u", "l", "l">>
S_format == <<"f", "o", "r", "m", "a", "t">>
S_tenant_id == <<"t", "e", "n", "a", "n", "t", "_", "i", "d">>
S_description == <<"d", "e", "s", "c", "r", "i", "p", "t", "i", "o", "n">>
S_pic == <<"p", "i", "c">>
S_profile_pic == <<"p", "r", "o", "f", "i", "l", "e", "_", "p", "i", "c">>
S_file == <<"f", "i", "l", "e">>
S_name == <<"n", "a", "m", "e">>
S_page == <<"p", "a", "g", "e">>
S_GET == <<"G", "E", "T">>
S_POST == <<"P", "O", "S", "T">>
S_base_url == <<"b", "a", "s", "e", "_", "u", "r", "l">>
S_token == <<"t", "o", "k", "e", "n">>
S_a == <<"a">>
S_b == <<"b">>
S_c == <<"c">>
S_l == <<"l">>
S_n == <<"n">>
S_p == <<"p">>
S_q == <<"q">>
S_s == <<"s">>
S_t == <<"t">>
S_x == <<"x">>
S_id == <<"i", "d">>
S_d1 == <<"d", "1">>
S_d2 == <<"d", "2">>
S_u1 == <<"u", "1">>
S_7 == <<"7">>
S_A == <<"A">>
S_B == <<"B">>
S_C == <<"C">>
S_L == <<"L">>
S_N == <<"N">>
S_P == <<"P">>
S_Q == <<"Q">>
S_S == <<"S">>
S_T == <<"T">>
S_X == <<"X">>
S_Ok == <<"O", "k">>
S_ID == <<"I", "D">>
S_Age == <<"A", "g", "e">>
S_Name == <<"N", "a", "m", "e">>
S_Page == <<"P", "a", "g", "e">>
S_Base == <<"B", "a", "s", "e">>
S_Inner == <<"I", "n", "n", "e", "r">>
S_Count == <<"C", "o", "u", "n", "t">>
S_UserID == <<"U", "s", "e", "r", "I", "D">>
S_Format == <<"F", "o", "r", "m", "a", "t">>
S_IsAdmin == <<"I", "s", "A", "d", "m", "i", "n">>
S_Username == <<"U", "s", "e", "r", "n", "a", "m", "e">>
S_TenantID == <<"T", "e", "n", "a", "n", "t", "I", "D">>
S_ProfilePic == <<"P", "r", "o", "f", "i", "l", "e", "P", "i", "c">>
S_Description == <<"D", "e", "s", "c", "r", "i", "p", "t", "i", "o", "n">>
S_hidden == <<"h", "i", "d", "d", "e", "n">>
S_pkg == <<"m", "a", "i", "n">>

\* "{{base_url}}"
BaseURL == <<"{", "{">> \o S_base_url \o <<"}", "}">>

(***************************************************************************)
(* reflect.Type and reflect.StructField.  A type is its descriptor: Kind,  *)
(* Elem (pointer and slice: a sequence holding the element type), Fields   *)
(* (struct) and Marshaler ("std" for encoding/json's own encoding,         *)
(* "panics" for a type whose MarshalJSON method panics on the zero value). *)
(***************************************************************************)
NoTag ==
  [json |-> <<>>, form |-> <<>>, formFile |-> <<>>, query |-> <<>>,
   param |-> <<>>, description |-> <<>>, example |-> <<>>]

\* An exported, named field.
Field(name, type, tag) ==
  [Name |-> name, PkgPath |-> <<>>, Anonymous |-> FALSE, Type |-> type, Tag |-> tag]

\* An embedded field: its name is the name of its type.
Embedded(name, type, tag) ==
  [Name |-> name, PkgPath |-> <<>>, Anonymous |-> TRUE, Type |-> type, Tag |-> tag]

\* A field that is not exported: PkgPath is the package of the declaration.
Unexported(name, type, tag) ==
  [Name |-> name, PkgPath |-> S_pkg, Anonymous |-> FALSE, Type |-> type, Tag |-> tag]

Basic(kind) == [Kind |-> kind, Elem |-> <<>>, Fields |-> <<>>, Marshaler |-> "std"]
PtrTo(elem) == [Kind |-> "ptr", Elem |-> <<elem>>, Fields |-> <<>>, Marshaler |-> "std"]
SliceOf(elem) == [Kind |-> "slice", Elem |-> <<elem>>, Fields |-> <<>>, Marshaler |-> "std"]
Struct(fields) == [Kind |-> "struct", Elem |-> <<>>, Fields |-> fields, Marshaler |-> "std"]

IntT == Basic("int")
BoolT == Basic("bool")
StringT == Basic("string")
\* chan int
ChanT == Basic("chan")

\* examples/main.go: CreateUserRequest (Email left out: it is routed as Username is)
CreateUserRequest ==
  Struct(<<
    Field(S_Username, StringT,
          [NoTag EXCEPT !.json = S_username, !.description = S_name, !.example = S_joe]),
    Field(S_IsAdmin, BoolT, [NoTag EXCEPT !.json = S_is_admin, !.example = S_false]),
    Field(S_Age, IntT, [NoTag EXCEPT !.json = S_age]) >>)

\* examples/main.go: GetUserRequest
GetUserRequest ==
  Struct(<<
    Field(S_UserID, StringT,
          [NoTag EXCEPT !.param = S_userId, !.description = S_ID, !.example = S_u1]),
    Field(S_Format, StringT,
          [NoTag EXCEPT !.query = S_format, !.description = S_format, !.example = S_full]),
    Field(S_TenantID, StringT, [NoTag EXCEPT !.query = S_tenant_id]) >>)

\* README.md: UploadPictureRequest
UploadPictureRequest ==
  Struct(<<
    Field(S_UserID, StringT,
          [NoTag EXCEPT !.param = S_userId, !.description = S_ID, !.example = S_u1]),
    Field(S_Description, StringT,
          [NoTag EXCEPT !.form = S_description, !.description = S_description,
                        !.example = S_pic]),
    Field(S_ProfilePic, StringT,
          [NoTag EXCEPT !.formFile = S_profile_pic, !.description = S_file]) >>)

\* struct { N int `json:"n"`; Ok bool; P *int `json:"p"`; L []int `json:"-"` }
Inner ==
  Struct(<<
    Field(S_N, IntT, [NoTag EXCEPT !.json = S_n]),
    Field(S_Ok, BoolT, NoTag),
    Field(S_P, PtrTo(IntT), [NoTag EXCEPT !.json = S_p]),
    Field(S_L, SliceOf(IntT), [NoTag EXCEPT !.json = Dash]) >>)

\* struct { N int; C chan int }: encoding/json has no encoding for it
Bad == Struct(<< Field(S_N, IntT, NoTag), Field(S_C, ChanT, NoTag) >>)

\* struct{} with func (Boom) MarshalJSON() ([]byte, error) { panic(...) }
Boom == [Kind |-> "struct", Elem |-> <<>>, Fields |-> <<>>, Marshaler |-> "panics"]

\* struct { ID string `param:"id" example:"7" description:"ID"`; Page int `query:"page"` }
Base ==
  Struct(<<
    Field(S_ID, StringT,
          [NoTag EXCEPT !.param = S_id, !.example = S_7, !.description = S_ID]),
    Field(S_Page, IntT, [NoTag EXCEPT !.query = S_page]) >>)

\* A record with a json and a form routing on one field, the sentinel "-" as
\* a tag and as an example, and a field that is not exported:
\* struct { A int `json:"a" form:"a" description:"a"`
\*          B bool `json:"b" query:"q" example:"-"`
\*          hidden int `form:"x" example:"x"`
\*          C string `json:"-" form:"-" param:"id" description:"c"` }
MixedRequest ==
  Struct(<<
    Field(S_A, IntT, [NoTag EXCEPT !.json = S_a, !.form = S_a, !.description = S_a]),
    Field(S_B, BoolT, [NoTag EXCEPT !.json = S_b, !.query = S_q, !.example = Dash]),
    Unexported(S_hidden, IntT, [NoTag EXCEPT !.form = S_x, !.example = S_x]),
    Field(S_C, StringT,
          [NoTag EXCEPT !.json = Dash, !.form = Dash, !.param = S_id,
                        !.description = S_c]) >>)

\* A record whose fields have no example and whose role keys meet the caller
\* defaults a, q and Q in different places:
\* struct { A int `json:"a" query:"q"`
\*          Q *int `query:"a" param:"q" description:"q"`
\*          T string `json:"t" query:"q" example:"full"`
\*          X []bool `json:"q" param:"id"` }
DefaultsRequest ==
  Struct(<<
    Field(S_A, IntT, [NoTag EXCEPT !.json = S_a, !.query = S_q]),
    Field(S_Q, PtrTo(IntT), [NoTag EXCEPT !.query = S_a, !.param = S_q, !.description = S_q]),
    Field(S_T, StringT, [NoTag EXCEPT !.json = S_t, !.query = S_q, !.example = S_full]),
    Field(S_X, SliceOf(BoolT), [NoTag EXCEPT !.json = S_q, !.param = S_id]) >>)

\* The same, routed to a form:
\* struct { A int `form:"a" query:"q"`; Q bool `formFile:"q" json:"a"` }
DefaultsFormRequest ==
  Struct(<<
    Field(S_A, IntT, [NoTag EXCEPT !.form = S_a, !.query = S_q]),
    Field(S_Q, BoolT, [NoTag EXCEPT !.formFile = S_q, !.json = S_a]) >>)

\* Zero values in a JSON body and in the query and path slots:
\* struct { P *int `json:"p" query:"p"`; L []bool `json:"l" query:"l"`
\*          S Inner `json:"s" param:"s"`; T string `json:"t" param:"t"`
\*          X []*Inner `json:"x" query:"x"` }
ZeroRequest ==
  Struct(<<
    Field(S_P, PtrTo(IntT), [NoTag EXCEPT !.json = S_p, !.query = S_p]),
    Field(S_L, SliceOf(BoolT), [NoTag EXCEPT !.json = S_l, !.query = S_l]),
    Field(S_S, Inner, [NoTag EXCEPT !.json = S_s, !.param = S_s]),
    Field(S_T, StringT, [NoTag EXCEPT !.json = S_t, !.param = S_t]),
    Field(S_X, SliceOf(PtrTo(Inner)), [NoTag EXCEPT !.json = S_x, !.query = S_x]) >>)

\* Zero values in a form:
\* struct { L []int `form:"l"`; S *Inner `formFile:"s" json:"s"`
\*          B Bad `form:"b"`; C chan int `json:"c" form:"c"` }
ZeroFormRequest ==
  Struct(<<
    Field(S_L, SliceOf(IntT), [NoTag EXCEPT !.form = S_l]),
    Field(S_S, PtrTo(Inner), [NoTag EXCEPT !.formFile = S_s, !.json = S_s]),
    Field(S_B, Bad, [NoTag EXCEPT !.form = S_b]),
    Field(S_C, ChanT, [NoTag EXCEPT !.json = S_c, !.form = S_c]) >>)

\* struct { N int `json:"n"`; C chan int `json:"c"` }: the body cannot be encoded
ChanRequest ==
  Struct(<<
    Field(S_N, IntT, [NoTag EXCEPT !.json = S_n]),
    Field(S_C, ChanT, [NoTag EXCEPT !.json = S_c]) >>)

\* struct { B Boom `json:"b"`; C chan int `json:"c"` }: encoding b panics
BoomRequest ==
  Struct(<<
    Field(S_B, Boom, [NoTag EXCEPT !.json = S_b]),
    Field(S_C, ChanT, [NoTag EXCEPT !.json = S_c]) >>)

\* struct { A int `form:"a"`; B Boom `form:"b"`; N int `form:"n"` }
BoomFormRequest ==
  Struct(<<
    Field(S_A, IntT, [NoTag EXCEPT !.form = S_a]),
    Field(S_B, Boom, [NoTag EXCEPT !.form = S_b]),
    Field(S_N, IntT, [NoTag EXCEPT !.form = S_n]) >>)

\* Embedded fields: a struct, a pointer to a struct, and a named int:
\* struct { Base `param:"x"`; *Inner; Count `query:"c"`; Name string `json:"name"` }
EmbedRequest ==
  Struct(<<
    Embedded(S_Base, Base, [NoTag EXCEPT !.param = S_x]),
    Embedded(S_Inner, PtrTo(Inner), NoTag),
    Embedded(S_Count, IntT, [NoTag EXCEPT !.query = S_c]),
    Field(S_Name, StringT, [NoTag EXCEPT !.json = S_name]) >>)

\* Tags that hold only the sentinel:
\* struct { A int `json:"a" form:"-"`; B int `formFile:"-" query:"-" param:"-"` }
DashRequest ==
  Struct(<<
    Field(S_A, IntT, [NoTag EXCEPT !.json = S_a, !.form = Dash]),
    Field(S_B, IntT, [NoTag EXCEPT !.formFile = Dash, !.query = Dash, !.param = Dash]) >>)

\* struct { X int }: no routing tag at all
PlainRequest == Struct(<< Field(S_X, IntT, NoTag) >>)

\* t.Kind()
Kind(t) == t.Kind

\* t.Elem()
Elem(t) == t.Elem[1]

(***************************************************************************)
(* Values of type any, tagged with their dynamic kind.                     *)
(***************************************************************************)
Val(kind, s, n, b, e, t) == [kind |-> kind, s |-> s, n |-> n, b |-> b, e |-> e, t |-> t]

StrV(s) == Val("string", s, 0, FALSE, <<>>, <<>>)
IntV(n) == Val("int", <<>>, n, FALSE, <<>>, <<>>)
BoolV(b) == Val("bool", <<>>, 0, b, <<>>, <<>>)
\* []any{...}
SliceV(e) == Val("slice", <<>>, 0, FALSE, e, <<>>)
\* reflect.Zero(t).Interface() of a struct type t
ZeroStructV(t) == Val("struct", <<>>, 0, FALSE, <<>>, <<t>>)
\* a nil channel
NilChanV == Val("chan", <<>>, 0, FALSE, <<>>, <<>>)
\* the nil interface value
NilV == Val("nil", <<>>, 0, FALSE, <<>>, <<>>)
\* not a value: the evaluation panicked
PanicV == Val("panic", <<>>, 0, FALSE, <<>>, <<>>)

(***************************************************************************)
(* encoding/json on the zero value of a type: [res, text] with res "ok",   *)
(* "error" (json.Marshal returns an error) or "panic" (a MarshalJSON       *)
(* method panicked; json.Marshal lets the panic through).  Tag options     *)
(* after a comma are not modelled.                                         *)
(***************************************************************************)
Quote(s) == <<"\"">> \o s \o <<"\"">>

RECURSIVE jsonZero(_)
RECURSIVE jsonZeroFields(_, _)

\* The members of the zero struct with these fields: [res, members], the
\* members in declaration order. first: no member has been written yet.
jsonZeroFields(fields, first) ==
  IF fields = <<>> THEN [res |-> "ok", text |-> <<>>]
  ELSE
    LET f == Head(fields)
        jsonTag == f.Tag.json
        flatten == f.Anonymous /\ jsonTag = <<>> /\ Kind(f.Type) = "struct"
        nilEmbedded == f.Anonymous /\ jsonTag = <<>> /\ Kind(f.Type) = "ptr"
                       /\ Kind(Elem(f.Type)) = "struct"
        skipped == f.PkgPath # <<>> \/ jsonTag = Dash \/ nilEmbedded
        key == IF jsonTag = <<>> THEN f.Name ELSE jsonTag
        sep == IF first THEN <<>> ELSE <<",">>
    IN IF skipped THEN jsonZeroFields(Tail(fields), first)
       ELSE
         LET this == IF flatten
                       THEN jsonZeroFields(f.Type.Fields, TRUE)
                       ELSE LET m == jsonZero(f.Type)
                            IN [res |-> m.res, text |-> Quote(key) \o <<":">> \o m.text]
         IN IF this.res # "ok" THEN [res |-> this.res, text |-> <<>>]
            ELSE IF this.text = <<>> THEN jsonZeroFields(Tail(fields), first)
            ELSE LET rest == jsonZeroFields(Tail(fields), FALSE)
                 IN IF rest.res # "ok" THEN rest
                    ELSE [res |-> "ok", text |-> sep \o this.text \o rest.text]

\* json.Marshal(reflect.Zero(t).Interface())
jsonZero(t) ==
  LET d == t
  IN IF d.Marshaler = "panics" THEN [res |-> "panic", text |-> <<>>]
     ELSE CASE d.Kind = "int" -> [res |-> "ok", text |-> <<"0">>]
            [] d.Kind = "bool" -> [res |-> "ok", text |-> S_false]
            [] d.Kind = "string" -> [res |-> "ok", text |-> Quote(<<>>)]
            [] d.Kind = "ptr" -> [res |-> "ok", text |-> <<"n", "u", "l", "l">>]
            [] d.Kind = "slice" -> [res |-> "ok", text |-> <<"n", "u", "l", "l">>]
            [] d.Kind = "chan" -> [res |-> "error", text |-> <<>>]
            [] d.Kind = "struct" ->
                 LET m == jsonZeroFields(d.Fields, TRUE)
                 IN IF m.res # "ok" THEN m
                    ELSE [res |-> "ok", text |-> <<"{">> \o m.text \o <<"}">>]

RECURSIVE jsonValue(_)
\* Whether encoding/json encodes the value v: "ok", "error" or "panic".
jsonValue(v) ==
  CASE v.kind \in {"string", "int", "bool", "nil"} -> "ok"
    [] v.kind = "chan" -> "error"
    [] v.kind = "struct" -> jsonZero(v.t[1]).res
    [] v.kind = "slice" ->
         IF v.e = <<>> THEN "ok"
         ELSE LET r == jsonValue(Head(v.e))
              IN IF r # "ok" THEN r ELSE jsonValue(SliceV(Tail(v.e)))

(***************************************************************************)
(* fmt.Sprint(v) for one operand.                                          *)
(***************************************************************************)
NilAngle == <<"<", "n", "i", "l", ">">>

RECURSIVE Sprint(_)
RECURSIVE SprintElems(_)
SprintElems(e) ==
  IF e = <<>> THEN <<>>
  ELSE IF Len(e) = 1 THEN Sprint(e[1])
  ELSE Sprint(e[1]) \o <<" ">> \o SprintElems(Tail(e))

Sprint(v) ==
  CASE v.kind = "string" -> v.s
    [] v.kind = "int" -> Itoa(v.n)
    [] v.kind = "bool" -> IF v.b THEN <<"t", "r", "u", "e">> ELSE S_false
    [] v.kind = "nil" -> NilAngle
    [] v.kind = "chan" -> NilAngle
    [] v.kind = "slice" -> <<"[">> \o SprintElems(v.e) \o <<"]">>

(***************************************************************************)
(* PostmanGen.TypeZeroValue                                                *)
(***************************************************************************)
RECURSIVE TypeZeroValue(_, _)
TypeZeroValue(t, preferString) ==
  IF Kind(t) = "ptr" THEN TypeZeroValue(Elem(t), preferString)
  ELSE IF Kind(t) = "struct" /\ preferString
    THEN LET m == jsonZero(t)
         IN CASE m.res = "panic" -> PanicV
              [] m.res = "error" -> NilV
              [] m.res = "ok" -> StrV(m.text)
  ELSE IF Kind(t) = "slice"
    THEN LET elem == TypeZeroValue(Elem(t), preferString)
         IN IF elem = PanicV THEN PanicV ELSE SliceV(<<elem>>)
  ELSE CASE Kind(t) = "int" -> IntV(0)
         [] Kind(t) = "bool" -> BoolV(FALSE)
         [] Kind(t) = "string" -> StrV(<<>>)
         [] Kind(t) = "chan" -> NilChanV
         [] Kind(t) = "struct" -> ZeroStructV(t)

(***************************************************************************)
(* walkStructFields: the fields handed to fn, in order.                    *)
(***************************************************************************)
RECURSIVE walkStructFields(_)
RECURSIVE walkFieldList(_)

\* The loop over t.Field(i), from the first field of the list on.
walkFieldList(fields) ==
  IF fields = <<>> THEN <<>>
  ELSE
    LET f == Head(fields)
        ft == IF Kind(f.Type) = "ptr" THEN Elem(f.Type) ELSE f.Type
    IN IF f.PkgPath # <<>> THEN walkFieldList(Tail(fields))
       ELSE IF f.Anonymous /\ Kind(ft) = "struct"
         THEN walkStructFields(ft) \o walkFieldList(Tail(fields))
       ELSE <<f>> \o walkFieldList(Tail(fields))

walkStructFields(t) ==
  LET s == IF Kind(t) = "ptr" THEN Elem(t) ELSE t
  IN IF Kind(s) # "struct" THEN <<>> ELSE walkFieldList(s.Fields)

(***************************************************************************)
(* The callback Register hands to walkStructFields.                        *)
(***************************************************************************)
\* A role key: the tag, or the declared name when the tag is empty or "-".
RoleKey(tag, fieldName) == IF tag = <<>> \/ tag = Dash THEN fieldName ELSE tag

\* The field is routed to the role: its tag is neither empty nor "-".
Routed(tag) == tag # <<>> /\ tag # Dash

\* placeholderValue == "" || placeholderValue == "-"
IsBlank(v) == v = StrV(<<>>) \/ v = StrV(Dash)

\* A resolution that asks the caller defaults before the example tag.
ResolveDefaultsFirst(field, defaults) ==
  LET tag == field.Tag
      jsonKey == RoleKey(tag.json, field.Name)
      formKey == RoleKey(tag.form, field.Name)
      formFileKey == RoleKey(tag.formFile, field.Name)
      queryKey == RoleKey(tag.query, field.Name)
      paramKey == RoleKey(tag.param, field.Name)
  IN IF jsonKey \in DOMAIN defaults THEN StrV(defaults[jsonKey])
     ELSE IF formKey \in DOMAIN defaults THEN StrV(defaults[formKey])
     ELSE IF formFileKey \in DOMAIN defaults THEN StrV(defaults[formFileKey])
     ELSE IF queryKey \in DOMAIN defaults THEN StrV(defaults[queryKey])
     ELSE IF paramKey \in DOMAIN defaults THEN StrV(defaults[paramKey])
     ELSE StrV(tag.example)

\* A resolution that probes the caller defaults in the order param, query,
\* formFile, form, json.
ResolveParamFirst(field, defaults) ==
  LET tag == field.Tag
      jsonKey == RoleKey(tag.json, field.Name)
      formKey == RoleKey(tag.form, field.Name)
      formFileKey == RoleKey(tag.formFile, field.Name)
      queryKey == RoleKey(tag.query, field.Name)
      paramKey == RoleKey(tag.param, field.Name)
  IN IF ~IsBlank(StrV(tag.example)) THEN StrV(tag.example)
     ELSE IF paramKey \in DOMAIN defaults THEN StrV(defaults[paramKey])
     ELSE IF queryKey \in DOMAIN defaults THEN StrV(defaults[queryKey])
     ELSE IF formFileKey \in DOMAIN defaults THEN StrV(defaults[formFileKey])
     ELSE IF formKey \in DOMAIN defaults THEN StrV(defaults[formKey])
     ELSE IF jsonKey \in DOMAIN defaults THEN StrV(defaults[jsonKey])
     ELSE StrV(tag.example)

\* placeholderValue after the probe of the caller defaults.
ResolvePlaceholder(field, defaults) ==
  LET tag == field.Tag
      jsonKey == RoleKey(tag.json, field.Name)
      formKey == RoleKey(tag.form, field.Name)
      formFileKey == RoleKey(tag.formFile, field.Name)
      queryKey == RoleKey(tag.query, field.Name)
      paramKey == RoleKey(tag.param, field.Name)
  IN IF ~IsBlank(StrV(tag.example)) THEN StrV(tag.example)
     ELSE IF jsonKey \in DOMAIN defaults THEN StrV(defaults[jsonKey])
     ELSE IF formKey \in DOMAIN defaults THEN StrV(defaults[formKey])
     ELSE IF formFileKey \in DOMAIN defaults THEN StrV(defaults[formFileKey])
     ELSE IF queryKey \in DOMAIN defaults THEN StrV(defaults[queryKey])
     ELSE IF paramKey \in DOMAIN defaults THEN StrV(defaults[paramKey])
     ELSE StrV(tag.example)

\* m[key] = value on a Go map.
MapPut(m, key, value) ==
  [k \in DOMAIN m \cup {key} |-> IF k = key THEN value ELSE m[k]]

EmptyMap == [k \in {} |-> <<>>]

\* The value stored in jsonParams for the field.
JsonSlotValue(field, defaults) ==
  LET placeholderValue == ResolvePlaceholder(field, defaults)
  IN IF IsBlank(placeholderValue) THEN TypeZeroValue(field.Type, FALSE)
     ELSE placeholderValue

\* placeholderValue as the form, query and path slots read it; PanicV when
\* TypeZeroValue panics.
StringSlotValue(field, defaults) ==
  LET placeholderValue == ResolvePlaceholder(field, defaults)
  IN IF IsBlank(placeholderValue) THEN TypeZeroValue(field.Type, TRUE)
     ELSE placeholderValue

\* The path-variable candidate of a param-tagged field. Its Description is
\* not set and stays the empty string.
PathVariable(key, value) ==
  [Key |-> key, Value |-> value, Type |-> "string", Description |-> <<>>]

NoParams ==
  [jsonParams |-> EmptyMap, formParams |-> <<>>, queryParams |-> <<>>,
   pathVariables |-> <<>>, panicked |-> FALSE]

\* One call of the callback: the four collections after the field.
FieldFn(acc, field, defaults) ==
  LET tag == field.Tag
      description == tag.description
      jsonParams == IF Routed(tag.json)
                      THEN MapPut(acc.jsonParams, RoleKey(tag.json, field.Name),
                                  JsonSlotValue(field, defaults))
                      ELSE acc.jsonParams
      placeholderValue == StringSlotValue(field, defaults)
      text == Sprint(placeholderValue)
      formText == IF Routed(tag.form)
                    THEN <<[Key |-> RoleKey(tag.form, field.Name), Value |-> text,
                            Type |-> "text", Description |-> description]>>
                    ELSE <<>>
      formFile == IF Routed(tag.formFile)
                    THEN <<[Key |-> RoleKey(tag.formFile, field.Name), Value |-> text,
                            Type |-> "file", Description |-> description]>>
                    ELSE <<>>
      query == IF Routed(tag.query)
                 THEN <<[Key |-> RoleKey(tag.query, field.Name), Value |-> text,
                         Description |-> description]>>
                 ELSE <<>>
      param == IF Routed(tag.param)
                 THEN <<PathVariable(RoleKey(tag.param, field.Name), text)>>
                 ELSE <<>>
  IN IF placeholderValue = PanicV
       THEN [acc EXCEPT !.jsonParams = jsonParams, !.panicked = TRUE]
       ELSE [jsonParams |-> jsonParams,
             formParams |-> acc.formParams \o formText \o formFile,
             queryParams |-> acc.queryParams \o query,
             pathVariables |-> acc.pathVariables \o param,
             panicked |-> FALSE]

RECURSIVE WalkParams(_, _, _)
\* The collections after the callback has run on the fields in order; a panic
\* ends the walk.
WalkParams(acc, fields, defaults) ==
  IF fields = <<>> \/ acc.panicked THEN acc
  ELSE WalkParams(FieldFn(acc, Head(fields), defaults), Tail(fields), defaults)

(***************************************************************************)
(* The URL of the request.                                                 *)
(***************************************************************************)
\* strings.Split(strings.Trim(path, "/"), "/")
PathSegments(path) == Split(Trim(path, "/"), "/")

RECURSIVE FindPathVariable(_, _)
\* The first candidate with the key, as a sequence of at most one element.
FindPathVariable(pathVariables, key) ==
  IF pathVariables = <<>> THEN <<>>
  ELSE IF Head(pathVariables).Key = key THEN <<Head(pathVariables)>>
  ELSE FindPathVariable(Tail(pathVariables), key)

\* The URL variable of a segment that starts with ":".
UrlVariable(segment, pathVariables) ==
  LET key == TrimPrefix(segment, Colon)
      found == FindPathVariable(pathVariables, key)
  IN [Key |-> key,
      Value |-> IF found = <<>> THEN Colon \o key ELSE found[1].Value,
      Type |-> "string",
      Description |-> IF found = <<>> THEN <<>> ELSE found[1].Description]

RECURSIVE UrlVariables(_, _)
UrlVariables(segments, pathVariables) ==
  IF segments = <<>> THEN <<>>
  ELSE (IF HasPrefix(Head(segments), Colon)
          THEN <<UrlVariable(Head(segments), pathVariables)>>
          ELSE <<>>)
       \o UrlVariables(Tail(segments), pathVariables)

\* The rewrite to "{{" + key + "}}", which the source has commented out.
RewriteSegmentsBraces(segments) ==
  [i \in 1..Len(segments) |->
     IF HasPrefix(segments[i], Colon)
       THEN <<"{", "{">> \o TrimPrefix(segments[i], Colon) \o <<"}", "}">>
       ELSE segments[i]]

\* pathSegments[i] = ":" + key for the segments that start with ":".
RewriteSegments(segments) ==
  [i \in 1..Len(segments) |->
     IF HasPrefix(segments[i], Colon)
       THEN Colon \o TrimPrefix(segments[i], Colon)
       ELSE segments[i]]

(***************************************************************************)
(* The body of the request.                                                *)
(***************************************************************************)
RECURSIVE SortedKeys(_)
\* The keys in increasing order, the order json.MarshalIndent writes a map in.
SortedKeys(keys) ==
  IF keys = {} THEN <<>>
  ELSE LET least == CHOOSE k \in keys : \A o \in keys \ {k} : StrLess(k, o)
       IN <<least>> \o SortedKeys(keys \ {least})

RECURSIVE MarshalMembers(_, _)
\* The result of encoding the members in order: the first that fails decides.
MarshalMembers(jsonParams, keys) ==
  IF keys = <<>> THEN "ok"
  ELSE LET r == jsonValue(jsonParams[Head(keys)])
       IN IF r # "ok" THEN r ELSE MarshalMembers(jsonParams, Tail(keys))

\* json.MarshalIndent(jsonParams, "", "  "): [res, members]. The text is not
\* rendered: members are the key/value pairs in the order they are written.
MarshalIndent(jsonParams) ==
  LET keys == SortedKeys(DOMAIN jsonParams)
      res == MarshalMembers(jsonParams, keys)
  IN [res |-> res,
      members |-> IF res = "ok"
                    THEN [i \in 1..Len(keys) |->
                            [Key |-> keys[i], Value |-> jsonParams[keys[i]]]]
                    ELSE <<>>]

NoBody == [Mode |-> "", FormData |-> <<>>, Raw |-> <<>>, Options |-> ""]

ContentType(value) == [Key |-> "Content-Type", Value |-> value]

(***************************************************************************)
(* The path tree: collection.Items.  An item is a folder (Request empty)   *)
(* or a request (Request holds the request); Request is a sequence of at   *)
(* most one element, standing for the pointer.                             *)
(***************************************************************************)
Folder(name, items) == [Name |-> name, Request |-> <<>>, Items |-> items]

\* postman.CreateItem(postman.Item{Name, Request, Responses})
CreateItem(name, request) == [Name |-> name, Request |-> <<request>>, Items |-> <<>>]

RECURSIVE FindFolderFrom(_, _, _)
FindFolderFrom(items, segment, i) ==
  IF i > Len(items) THEN 0
  ELSE IF items[i].Name = segment /\ items[i].Request = <<>> THEN i
  ELSE FindFolderFrom(items, segment, i + 1)

\* A folder search that never finds one.
FindFolderNever(items, segment) == 0

\* A folder search that takes any item with the name, a request too.
FindFolderByName(items, segment) ==
  IF \E i \in 1..Len(items) : items[i].Name = segment
    THEN CHOOSE i \in 1..Len(items) :
           /\ items[i].Name = segment
           /\ \A j \in 1..(i - 1) : items[j].Name # segment
    ELSE 0

\* The index of the first folder named segment among the items, 0 when there
\* is none.
FindFolder(items, segment) == FindFolderFrom(items, segment, 1)

RECURSIVE Attach(_, _, _)
\* The items after the walk over folderSegments and the append of item.
Attach(items, folderSegments, item) ==
  IF folderSegments = <<>> THEN Append(items, item)
  ELSE
    LET segment == Head(folderSegments)
        i == FindFolder(items, segment)
    IN IF i = 0
         THEN Append(items, Folder(segment, Attach(<<>>, Tail(folderSegments), item)))
         ELSE [items EXCEPT ![i].Items = Attach(@, Tail(folderSegments), item)]

IsFolder(item) == item.Request = <<>>
IsLeaf(item) == item.Request # <<>>

RECURSIVE Leaves(_, _)
\* The requests of the tree, each with the names of the folders above it,
\* in the order the tree lists them.
Leaves(items, folders) ==
  IF items = <<>> THEN <<>>
  ELSE (IF IsLeaf(Head(items))
          THEN <<[folders |-> folders, name |-> Head(items).Name,
                  request |-> Head(items).Request[1]]>>
          ELSE <<>>)
       \o Leaves(Head(items).Items, Append(folders, Head(items).Name))
       \o Leaves(Tail(items), folders)

(***************************************************************************)
(* The argument of Register, a map[string]any: each entry is absent, a     *)
(* string, a reflect.Type or a value of another type.                      *)
(***************************************************************************)
Dyn(dyn, s, t) == [dyn |-> dyn, s |-> s, t |-> t]
StringArg(s) == Dyn("string", s, <<>>)
TypeArg(t) == Dyn("reflect.Type", <<>>, <<t>>)
Absent == Dyn("absent", <<>>, <<>>)
IntArg == Dyn("int", <<>>, <<>>)

SpecOf(method, path, inputType) ==
  [method |-> method, path |-> path, inputType |-> inputType]

NoSpec == SpecOf(Absent, Absent, Absent)

\* The request under construction, before the body is decided.
NewRequest(method, pathSegments, queryParams, urlVariables) ==
  [URL |-> [Raw |-> BaseURL \o Slash \o Join(pathSegments, Slash),
            Host |-> <<BaseURL>>,
            Path |-> pathSegments,
            Query |-> queryParams,
            Variables |-> urlVariables],
   Method |-> method,
   Header |-> <<>>,
   Body |-> NoBody]

\* A choice of the body that asks for JSON members before form parameters.
WithBodyJsonFirst(request, formParams, jsonParams) ==
  IF DOMAIN jsonParams # {}
    THEN LET m == MarshalIndent(jsonParams)
         IN [res |-> m.res,
             request |-> [request EXCEPT
                            !.Body = [NoBody EXCEPT !.Mode = "raw",
                                                    !.Raw = m.members,
                                                    !.Options = "json"],
                            !.Header = <<ContentType("application/json")>>]]
  ELSE IF Len(formParams) > 0
    THEN [res |-> "ok",
          request |-> [request EXCEPT
                         !.Body = [NoBody EXCEPT !.Mode = "formdata",
                                                 !.FormData = formParams],
                         !.Header = <<ContentType("multipart/form-data")>>]]
  ELSE [res |-> "ok", request |-> request]

\* The body and the header chosen from the collected parameters: [res, request].
WithBody(request, formParams, jsonParams) ==
  IF Len(formParams) > 0
    THEN [res |-> "ok",
          request |-> [request EXCEPT
                         !.Body = [NoBody EXCEPT !.Mode = "formdata",
                                                 !.FormData = formParams],
                         !.Header = <<ContentType("multipart/form-data")>>]]
  ELSE IF DOMAIN jsonParams # {}
    THEN LET m == MarshalIndent(jsonParams)
         IN [res |-> m.res,
             request |-> [request EXCEPT
                            !.Body = [NoBody EXCEPT !.Mode = "raw",
                                                    !.Raw = m.members,
                                                    !.Options = "json"],
                            !.Header = <<ContentType("application/json")>>]]
  ELSE [res |-> "ok", request |-> request]

\* What a call of Register ends with.
Outcome(err, panicked, items, request, params) ==
  [err |-> err, panicked |-> panicked, items |-> items, request |-> request,
   params |-> params]

\* The parameters collected from the fields of the record type typ.
CollectParams(typ, defaults) == WalkParams(NoParams, walkStructFields(typ), defaults)

\* The request compiled from the collected parameters: [res, request].
CompileRequest(method, path, params) ==
  WithBody(NewRequest(method, RewriteSegments(PathSegments(path)), params.queryParams,
                      UrlVariables(PathSegments(path), params.pathVariables)),
           params.formParams, params.jsonParams)

\* A filing that keeps one request per name: a request whose folder already
\* holds a request of its name is dropped.
AttachRequestOnce(items, request) ==
  IF \E l \in 1..Len(Leaves(items, <<>>)) :
       /\ Leaves(items, <<>>)[l].folders
            = SubSeq(request.URL.Path, 1, Len(request.URL.Path) - 1)
       /\ Leaves(items, <<>>)[l].name = request.URL.Path[Len(request.URL.Path)]
    THEN items
    ELSE Attach(items, SubSeq(request.URL.Path, 1, Len(request.URL.Path) - 1),
                CreateItem(request.URL.Path[Len(request.URL.Path)], request))

\* The tree with the request filed under its path: the folders are all the
\* segments but the last, which names the item.
AttachRequest(items, request) ==
  Attach(items, SubSeq(request.URL.Path, 1, Len(request.URL.Path) - 1),
         CreateItem(request.URL.Path[Len(request.URL.Path)], request))

\* An end of the call that files the request before the encoding error is
\* returned.
FinishAttachedOnError(items, params, built) ==
  IF params.panicked \/ built.res = "panic"
    THEN Outcome("nil", TRUE, items, <<>>, params)
  ELSE IF built.res = "error"
    THEN Outcome("failed to marshal json body", FALSE,
                 AttachRequest(items, built.request), <<>>, params)
  ELSE Outcome("nil", FALSE, AttachRequest(items, built.request), <<built.request>>,
               params)

\* The end of a call whose arguments are well formed. A panic is recovered
\* and the call returns the zero error value.
Finish(items, params, built) ==
  IF params.panicked \/ built.res = "panic"
    THEN Outcome("nil", TRUE, items, <<>>, params)
  ELSE IF built.res = "error"
    THEN Outcome("failed to marshal json body", FALSE, items, <<>>, params)
  ELSE Outcome("nil", FALSE, AttachRequest(items, built.request), <<built.request>>,
               params)

\* Register from the walk over the fields on.
RegisterStruct(method, path, items, params) ==
  Finish(items, params, CompileRequest(method, path, params))

\* typ: the input type with one pointer removed.
Deref(inputType) == IF Kind(inputType) = "ptr" THEN Elem(inputType) ELSE inputType

\* Register(spec) on the tree items with the caller defaults: the error it
\* returns ("nil" for none), whether a panic was recovered, the tree after
\* the call, the request it compiled and the parameters it collected.
RegisterOutcome(spec, items, defaults) ==
  IF spec.method.dyn # "string" \/ spec.path.dyn # "string"
     \/ spec.inputType.dyn # "reflect.Type"
    THEN Outcome("invalid spec: must contain method, path, and inputType",
                 FALSE, items, <<>>, NoParams)
  ELSE IF Kind(Deref(spec.inputType.t[1])) # "struct"
    THEN Outcome("invalid object type: must be a struct or pointer to struct",
                 FALSE, items, <<>>, NoParams)
  ELSE RegisterStruct(spec.method.s, spec.path.s, items,
                      CollectParams(Deref(spec.inputType.t[1]), defaults))

(***************************************************************************)
(* The calls the model makes.                                              *)
(***************************************************************************)
P_users == Slash \o S_users
P_picture == Slash \o S_users \o Slash \o Colon \o S_userId \o Slash \o S_picture
P_user == Slash \o S_users \o Slash \o Colon \o S_userId

PostUsers == SpecOf(StringArg(S_POST), StringArg(P_users), TypeArg(CreateUserRequest))
PostPicture == SpecOf(StringArg(S_POST), StringArg(P_picture), TypeArg(UploadPictureRequest))
GetUser == SpecOf(StringArg(S_GET), StringArg(P_user), TypeArg(GetUserRequest))

\* Register calls of the tree specification: the routes of the README, paths
\* with no leading slash, a trailing slash, no segment and an empty segment,
\* a pointer to a struct, a body that cannot be encoded, an encoding that
\* panics, and arguments Register rejects.
TreeSpecs ==
  { PostUsers, PostPicture, GetUser,
    SpecOf(StringArg(S_GET), StringArg(S_users \o Slash), TypeArg(PtrTo(CreateUserRequest))),
    SpecOf(StringArg(S_GET), StringArg(<<>>), TypeArg(PlainRequest)),
    SpecOf(StringArg(S_POST), StringArg(P_users \o Slash \o Slash \o S_users),
           TypeArg(PlainRequest)),
    SpecOf(StringArg(S_POST), StringArg(P_users), TypeArg(ChanRequest)),
    SpecOf(StringArg(S_POST), StringArg(P_user), TypeArg(BoomRequest)),
    SpecOf(Absent, StringArg(P_users), TypeArg(CreateUserRequest)),
    SpecOf(StringArg(S_POST), IntArg, TypeArg(CreateUserRequest)),
    SpecOf(StringArg(S_POST), StringArg(P_users), Absent),
    SpecOf(StringArg(S_POST), StringArg(P_users), TypeArg(IntT)),
    SpecOf(StringArg(S_POST), StringArg(P_users), TypeArg(PtrTo(PtrTo(CreateUserRequest)))) }

\* Register calls of the request-compilation specification: one per record
\* type, on a path whose variables some fields match and some do not.
FieldSpecs ==
  { PostUsers, PostPicture, GetUser,
    SpecOf(StringArg(S_POST), StringArg(Slash \o Colon \o S_id \o Slash \o S_x \o Slash
                                        \o Colon \o S_id), TypeArg(MixedRequest)),
    SpecOf(StringArg(S_GET), StringArg(Slash \o Colon \o S_q \o Slash \o Colon \o S_id
                                       \o Slash \o Colon \o S_s), TypeArg(DefaultsRequest)),
    SpecOf(StringArg(S_POST), StringArg(Slash \o Colon \o S_q), TypeArg(DefaultsFormRequest)),
    SpecOf(StringArg(S_GET), StringArg(Slash \o Colon \o S_s \o Slash \o Colon \o S_t
                                       \o Slash \o Colon), TypeArg(ZeroRequest)),
    SpecOf(StringArg(S_POST), StringArg(Slash \o S_x), TypeArg(ZeroFormRequest)),
    SpecOf(StringArg(S_POST), StringArg(Slash \o S_x), TypeArg(ChanRequest)),
    SpecOf(StringArg(S_POST), StringArg(Slash \o S_x), TypeArg(BoomRequest)),
    SpecOf(StringArg(S_POST), StringArg(Slash \o S_x), TypeArg(BoomFormRequest)),
    SpecOf(StringArg(S_GET), StringArg(Slash \o Colon \o S_id \o Slash \o Colon \o S_x),
           TypeArg(EmbedRequest)),
    SpecOf(StringArg(S_GET), StringArg(Slash \o Colon \o S_id), TypeArg(PlainRequest)),
    SpecOf(StringArg(S_POST), StringArg(Slash \o Colon \o S_B), TypeArg(DashRequest)) }

\* AddPlaceholder arguments of the tree specification.
TreeKeys == {S_age}
TreeValues == {S_d1}

\* AddPlaceholder arguments of the request-compilation specification: role
\* keys of the sample records, and the empty string and "-" among the values.
DefaultKeys == {S_a, S_q}
DefaultValues == {<<>>, Dash, S_d1, S_d2}

\* AddVariable arguments.
VariableKeys == {S_base_url}
VariableValues == {S_users, S_token}

(***************************************************************************)
(* State and actions.                                                      *)
(*   Items                collection.Items, the root of the path tree      *)
(*   Variables            collection.Variables                             *)
(*   placeholderDefaults  the caller defaults                              *)
(*   last                 the last call and, for Register, what it ended   *)
(*                        with                                             *)
(*   history              the Register calls made, in order: the argument, *)
(*                        the error returned, whether a panic was recovered*)
(*   calls                how many AddPlaceholder and AddVariable calls    *)
(*                        have been made                                   *)
(*   walk                 the call stack of walkStructFields, in the       *)
(*                        specification that takes the walk step by step   *)
(***************************************************************************)
LastOf(op, spec, out) ==
  [op |-> op, spec |-> spec, err |-> out.err, panicked |-> out.panicked,
   request |-> out.request, params |-> out.params]

NoOutcome == Outcome("nil", FALSE, <<>>, <<>>, NoParams)

\* NewPostmanGen
Init ==
  /\ Items = <<>>
  /\ Variables = <<>>
  /\ placeholderDefaults = EmptyMap
  /\ last = LastOf("NewPostmanGen", NoSpec, NoOutcome)
  /\ history = <<>>
  /\ calls = [AddPlaceholder |-> 0, AddVariable |-> 0]
  /\ walk = [pc |-> "idle", stack |-> <<>>, handed |-> <<>>, done |-> <<>>]

\* The state after p.Register(spec) ended with out.
Registered(spec, out) ==
  /\ Items' = out.items
  /\ last' = LastOf("Register", spec, out)
  /\ history' = Append(history, [spec |-> spec, err |-> out.err,
                                 panicked |-> out.panicked])
  /\ UNCHANGED <<Variables, placeholderDefaults, calls, walk>>

\* p.Register(spec)
RegisterCall(spec) == Registered(spec, RegisterOutcome(spec, Items, placeholderDefaults))

\* p.AddPlaceholder(key, value)
AddPlaceholderCall(key, value) ==
  /\ placeholderDefaults' = MapPut(placeholderDefaults, key, value)
  /\ last' = LastOf("AddPlaceholder", NoSpec, NoOutcome)
  /\ calls' = [calls EXCEPT !.AddPlaceholder = @ + 1]
  /\ UNCHANGED <<Items, Variables, history, walk>>

\* p.AddVariable(key, value)
AddVariableCall(key, value) ==
  /\ Variables' = Append(Variables, [Key |-> key, Type |-> "string", Value |-> value])
  /\ last' = LastOf("AddVariable", NoSpec, NoOutcome)
  /\ calls' = [calls EXCEPT !.AddVariable = @ + 1]
  /\ UNCHANGED <<Items, placeholderDefaults, history, walk>>

Register ==
  \E spec \in TreeSpecs : Len(history) < MaxCalls /\ RegisterCall(spec)

AddPlaceholder ==
  \E key \in TreeKeys, value \in TreeValues :
    calls.AddPlaceholder < MaxPlaceholders /\ AddPlaceholderCall(key, value)

AddVariable ==
  \E key \in VariableKeys, value \in VariableValues :
    calls.AddVariable < MaxVariables /\ AddVariableCall(key, value)

Next == Register \/ AddPlaceholder \/ AddVariable

\* The generator under any sequence of calls, the Register calls from TreeSpecs.
Spec == Init /\ [][Next]_vars

RegisterFields ==
  \E spec \in FieldSpecs : Len(history) < MaxFieldCalls /\ RegisterCall(spec)

AddPlaceholderFields ==
  \E key \in DefaultKeys, value \in DefaultValues :
    calls.AddPlaceholder < MaxPlaceholders /\ AddPlaceholderCall(key, value)

NextFields == RegisterFields \/ AddPlaceholderFields

\* The generator under AddPlaceholder and Register calls, the Register calls
\* from FieldSpecs.
SpecFields == Init /\ [][NextFields]_vars

(***************************************************************************)
(* walkStructFields step by step.  The types are declarations looked up by *)
(* name, so that a declaration can name itself.  A field is its Name,      *)
(* whether it is exported (PkgPath empty), whether it is embedded          *)
(* (Anonymous), the Kind of its type and, for a struct or a pointer, the   *)
(* declaration the type or its element names.                              *)
(*                                                                         *)
(*   walk.pc      "idle", "walking", "returned" or "stack overflow"        *)
(*   walk.stack   the frames of walkStructFields, the innermost last: the  *)
(*                type t of the call and the index i of its loop           *)
(*   walk.handed  the names of the fields handed to fn, in order           *)
(*   walk.done    the types whose walk has returned                        *)
(***************************************************************************)
WalkField(name, exported, anonymous, kind, target) ==
  [Name |-> name, PkgPath |-> IF exported THEN <<>> ELSE S_pkg,
   Anonymous |-> anonymous, Kind |-> kind, Target |-> target]

\* type Leaf struct { X int }
\* type Mid  struct { *Leaf; Z int }
\* type Wrap struct { Mid; hidden int; Y int }
\* type List struct { Next *List; V int }
\* type node struct { *node; X int }     the embedded field is not exported
\* type Node struct { *Node; X int }     embeds its own type
\* type Ping struct { A int; *Pong }     embeds a type that embeds it back
\* type Pong struct { *Ping; B int }
WalkDecls ==
  [ Leaf |-> << WalkField("X", TRUE, FALSE, "int", "") >>,
    Mid  |-> << WalkField("Leaf", TRUE, TRUE, "ptr", "Leaf"),
                WalkField("Z", TRUE, FALSE, "int", "") >>,
    Wrap |-> << WalkField("Mid", TRUE, TRUE, "struct", "Mid"),
                WalkField("hidden", FALSE, FALSE, "int", ""),
                WalkField("Y", TRUE, FALSE, "int", "") >>,
    List |-> << WalkField("Next", TRUE, FALSE, "ptr", "List"),
                WalkField("V", TRUE, FALSE, "int", "") >>,
    node |-> << WalkField("node", FALSE, TRUE, "ptr", "node"),
                WalkField("X", TRUE, FALSE, "int", "") >>,
    Node |-> << WalkField("Node", TRUE, TRUE, "ptr", "Node"),
                WalkField("X", TRUE, FALSE, "int", "") >>,
    Ping |-> << WalkField("A", TRUE, FALSE, "int", ""),
                WalkField("Pong", TRUE, TRUE, "ptr", "Pong") >>,
    Pong |-> << WalkField("Ping", TRUE, TRUE, "ptr", "Ping"),
                WalkField("B", TRUE, FALSE, "int", "") >> ]

\* The input types Register is called with in the field-walk specification.
WalkRoots == {"Leaf", "Wrap", "List", "node", "Node", "Ping"}

\* The frame of the innermost call.
Top == walk.stack[Len(walk.stack)]

\* t.Field(i) of the innermost call.
TopField == WalkDecls[Top.t][Top.i]

\* The loop of the innermost call has a field left.
InLoop == walk.pc = "walking" /\ Top.i <= Len(WalkDecls[Top.t])

\* f.Anonymous, and ft, the type with one pointer removed, is a struct.
EmbedsStruct(f) ==
  f.Anonymous /\ f.Kind \in {"ptr", "struct"} /\ f.Target \in DOMAIN WalkDecls

\* The stack after i++ in the innermost call.
Advanced == [walk.stack EXCEPT ![Len(walk.stack)].i = @ + 1]

\* Register calls walkStructFields(typ, fn) on a struct type.
WalkCall ==
  \E t \in WalkRoots :
    /\ walk.pc \in {"idle", "returned"}
    /\ Len(walk.done) < MaxWalks
    /\ walk' = [walk EXCEPT !.pc = "walking", !.stack = <<[t |-> t, i |-> 1]>>,
                            !.handed = <<>>]
    /\ UNCHANGED <<Items, Variables, placeholderDefaults, last, history, calls>>

\* if f.PkgPath != "" { continue }
WalkSkip ==
  /\ InLoop
  /\ TopField.PkgPath # <<>>
  /\ walk' = [walk EXCEPT !.stack = Advanced]
  /\ UNCHANGED <<Items, Variables, placeholderDefaults, last, history, calls>>

\* walkStructFields(ft, fn); continue: the call of an embedded struct, which
\* the stack has room for.
WalkEmbedded ==
  /\ InLoop
  /\ TopField.PkgPath = <<>>
  /\ EmbedsStruct(TopField)
  /\ Len(walk.stack) < MaxDepth
  /\ walk' = [walk EXCEPT !.stack = Append(Advanced, [t |-> TopField.Target, i |-> 1])]
  /\ UNCHANGED <<Items, Variables, placeholderDefaults, last, history, calls>>

\* The same call with the stack full: the runtime ends the program with a
\* fatal error that recover() does not see. No step follows.
WalkOverflow ==
  /\ InLoop
  /\ TopField.PkgPath = <<>>
  /\ EmbedsStruct(TopField)
  /\ Len(walk.stack) = MaxDepth
  /\ walk' = [walk EXCEPT !.pc = "stack overflow"]
  /\ UNCHANGED <<Items, Variables, placeholderDefaults, last, history, calls>>

\* fn(f)
WalkFn ==
  /\ InLoop
  /\ TopField.PkgPath = <<>>
  /\ ~EmbedsStruct(TopField)
  /\ walk' = [walk EXCEPT !.stack = Advanced, !.handed = Append(@, TopField.Name)]
  /\ UNCHANGED <<Items, Variables, placeholderDefaults, last, history, calls>>

\* The loop of the innermost call is over: the call returns, to the call
\* that made it or to Register.
WalkReturn ==
  /\ walk.pc = "walking"
  /\ Top.i > Len(WalkDecls[Top.t])
  /\ walk' = IF Len(walk.stack) = 1
               THEN [walk EXCEPT !.pc = "returned", !.stack = <<>>,
                                 !.done = Append(@, Top.t)]
               ELSE [walk EXCEPT !.stack = SubSeq(@, 1, Len(@) - 1)]
  /\ UNCHANGED <<Items, Variables, placeholderDefaults, last, history, calls>>

NextWalk ==
  WalkCall \/ WalkSkip \/ WalkEmbedded \/ WalkOverflow \/ WalkFn \/ WalkReturn

\* The field walks of Register calls on the types of WalkRoots.
SpecWalk == Init /\ [][NextWalk]_vars

(***************************************************************************)
(* Reading the tree.                                                       *)
(***************************************************************************)
RECURSIVE FoldersUnique(_)
\* No two folders among the items have one name, nor in any item below.
FoldersUnique(items) ==
  /\ \A i, j \in 1..Len(items) :
       (i # j /\ IsFolder(items[i]) /\ IsFolder(items[j])) => items[i].Name # items[j].Name
  /\ \A i \in 1..Len(items) : FoldersUnique(items[i].Items)

RECURSIVE ChildrenAt(_, _)
\* The children of the folder reached from the items along the folder names;
\* the empty sequence when a folder of the path is missing.
ChildrenAt(items, folders) ==
  IF folders = <<>> THEN items
  ELSE IF FindFolder(items, Head(folders)) = 0 THEN <<>>
  ELSE ChildrenAt(items[FindFolder(items, Head(folders))].Items, Tail(folders))

\* s without its k-th element.
RemoveAt(s, k) == SubSeq(s, 1, k - 1) \o SubSeq(s, k + 1, Len(s))

\* The Register calls made so far that returned nil.
ReturnedNil == {i \in 1..Len(history) : history[i].err = "nil"}

\* The Register calls made so far that returned nil and recovered no panic.
Completed == {i \in 1..Len(history) : history[i].err = "nil" /\ ~history[i].panicked}

\* The step is a Register call.
RegisterStep == Len(history') = Len(history) + 1

(***************************************************************************)
(* C1.  POST /users and then POST /users/:userId/picture on a new          *)
(* generator.                                                              *)
(***************************************************************************)
TwoRoutes ==
  /\ Len(history) = 2
  /\ history[1].spec = PostUsers
  /\ history[2].spec = PostPicture

IsPostUsersLeaf(item) ==
  /\ IsLeaf(item)
  /\ item.Name = S_users
  /\ item.Items = <<>>
  /\ item.Request[1].Method = S_POST
  /\ item.Request[1].URL.Raw = BaseURL \o P_users
  /\ item.Request[1].Body.Mode = "raw"

IsPictureLeaf(item) ==
  /\ IsLeaf(item)
  /\ item.Name = S_picture
  /\ item.Items = <<>>
  /\ item.Request[1].Method = S_POST
  /\ item.Request[1].URL.Raw = BaseURL \o P_picture
  /\ item.Request[1].Body.Mode = "formdata"
  /\ Len(item.Request[1].Body.FormData) = 2
  /\ item.Request[1].Body.FormData[2].Type = "file"

\* The items are one folder :userId that holds the picture request alone.
IsUserIdFolder(item) ==
  /\ IsFolder(item)
  /\ item.Name = Colon \o S_userId
  /\ Len(item.Items) = 1
  /\ IsPictureLeaf(item.Items[1])

\* C1 as stated: after the two calls the root holds one folder users and
\* nothing else; the folder holds one leaf, the POST /users request, and one
\* folder :userId, which holds one leaf, the picture request.
C1_OneUsersFolder ==
  TwoRoutes =>
    /\ Len(Items) = 1
    /\ IsFolder(Items[1])
    /\ Items[1].Name = S_users
    /\ Len(Items[1].Items) = 2
    /\ \E i, j \in 1..2 :
         /\ i # j
         /\ IsPostUsersLeaf(Items[1].Items[i])
         /\ IsUserIdFolder(Items[1].Items[j])

\* C1 amended: after the two calls the root holds two items, the leaf users
\* that carries the POST /users request and then one folder users; the folder
\* holds one folder :userId and nothing else, and :userId holds one leaf, the
\* picture request.
C1_LeafBesideUsersFolder ==
  TwoRoutes =>
    /\ Len(Items) = 2
    /\ IsPostUsersLeaf(Items[1])
    /\ IsFolder(Items[2])
    /\ Items[2].Name = S_users
    /\ Len(Items[2].Items) = 1
    /\ IsUserIdFolder(Items[2].Items[1])

\* The two calls have been made and both returned nil.
C1_Witness == TwoRoutes /\ history[1].err = "nil" /\ history[2].err = "nil"

(***************************************************************************)
(* Readers of the last Register call: its fields and their slots.          *)
(***************************************************************************)
\* The argument lacks a string method, a string path or a reflect.Type, or
\* the type is neither a struct nor a pointer to a struct.
Malformed(spec) ==
  \/ spec.method.dyn # "string"
  \/ spec.path.dyn # "string"
  \/ spec.inputType.dyn # "reflect.Type"
  \/ /\ spec.inputType.t[1].Kind # "struct"
     /\ ~(spec.inputType.t[1].Kind = "ptr" /\ spec.inputType.t[1].Elem[1].Kind = "struct")

\* The last call was a Register that walked the fields to the end: its
\* argument was well formed and no panic was recovered.
Compiled == last.op = "Register" /\ ~Malformed(last.spec) /\ ~last.panicked

\* The fields the last Register call walked, in order.
LastFields ==
  IF last.op = "Register" /\ ~Malformed(last.spec)
    THEN walkStructFields(Deref(last.spec.inputType.t[1]))
    ELSE <<>>

Bit(b) == IF b THEN 1 ELSE 0

RECURSIVE FormBefore(_, _)
\* How many form parameters the fields before the i-th have appended.
FormBefore(fields, i) ==
  IF i = 1 THEN 0
  ELSE FormBefore(fields, i - 1) + Bit(Routed(fields[i - 1].Tag.form))
       + Bit(Routed(fields[i - 1].Tag.formFile))

RECURSIVE QueryBefore(_, _)
QueryBefore(fields, i) ==
  IF i = 1 THEN 0
  ELSE QueryBefore(fields, i - 1) + Bit(Routed(fields[i - 1].Tag.query))

RECURSIVE ParamBefore(_, _)
ParamBefore(fields, i) ==
  IF i = 1 THEN 0
  ELSE ParamBefore(fields, i - 1) + Bit(Routed(fields[i - 1].Tag.param))

\* Every routed role of every field has its slot, under its key.
SlotsAligned(fields, params) ==
  /\ Len(params.formParams) = FormBefore(fields, Len(fields) + 1)
  /\ Len(params.queryParams) = QueryBefore(fields, Len(fields) + 1)
  /\ Len(params.pathVariables) = ParamBefore(fields, Len(fields) + 1)
  /\ \A i \in 1..Len(fields) :
       /\ Routed(fields[i].Tag.form) =>
            /\ params.formParams[FormBefore(fields, i) + 1].Key = fields[i].Tag.form
            /\ params.formParams[FormBefore(fields, i) + 1].Type = "text"
       /\ Routed(fields[i].Tag.formFile) =>
            /\ params.formParams[FormBefore(fields, i + 1)].Key = fields[i].Tag.formFile
            /\ params.formParams[FormBefore(fields, i + 1)].Type = "file"
       /\ Routed(fields[i].Tag.query) =>
            params.queryParams[QueryBefore(fields, i) + 1].Key = fields[i].Tag.query
       /\ Routed(fields[i].Tag.param) =>
            params.pathVariables[ParamBefore(fields, i) + 1].Key = fields[i].Tag.param
       /\ Routed(fields[i].Tag.json) => fields[i].Tag.json \in DOMAIN params.jsonParams

\* The texts in the form, formFile, query and path-variable slots of the
\* i-th field.
StringSlots(fields, i, params) ==
  (IF Routed(fields[i].Tag.form)
     THEN {params.formParams[FormBefore(fields, i) + 1].Value} ELSE {})
  \cup (IF Routed(fields[i].Tag.formFile)
          THEN {params.formParams[FormBefore(fields, i + 1)].Value} ELSE {})
  \cup (IF Routed(fields[i].Tag.query)
          THEN {params.queryParams[QueryBefore(fields, i) + 1].Value} ELSE {})
  \cup (IF Routed(fields[i].Tag.param)
          THEN {params.pathVariables[ParamBefore(fields, i) + 1].Value} ELSE {})

\* The values in the JSON slot of the i-th field: the member under its key,
\* unless a later field has written the same key.
JsonSlots(fields, i, params) ==
  IF /\ Routed(fields[i].Tag.json)
     /\ \A j \in (i + 1)..Len(fields) : fields[j].Tag.json # fields[i].Tag.json
    THEN {params.jsonParams[fields[i].Tag.json]}
    ELSE {}

\* The field has a slot to look at.
HasSlot(fields, i, params) ==
  StringSlots(fields, i, params) \cup JsonSlots(fields, i, params) # {}

\* The example tag is empty or "-".
NoExample(field) == field.Tag.example = <<>> \/ field.Tag.example = Dash

\* The five role keys of the field, in the order json, form, formFile, query,
\* param.
RoleKeys(field) ==
  << RoleKey(field.Tag.json, field.Name), RoleKey(field.Tag.form, field.Name),
     RoleKey(field.Tag.formFile, field.Name), RoleKey(field.Tag.query, field.Name),
     RoleKey(field.Tag.param, field.Name) >>

\* Some role key of the field is a key of the caller defaults.
HasDefault(field, defaults) == \E k \in 1..5 : RoleKeys(field)[k] \in DOMAIN defaults

\* The default under the first role key that is a key of the caller defaults.
FirstDefault(field, defaults) ==
  LET first == CHOOSE k \in 1..5 :
                 /\ RoleKeys(field)[k] \in DOMAIN defaults
                 /\ \A o \in 1..(k - 1) : RoleKeys(field)[o] \notin DOMAIN defaults
  IN defaults[RoleKeys(field)[first]]

(***************************************************************************)
(* C2.  The example tag wins.                                              *)
(***************************************************************************)
\* C2: whatever the caller defaults hold, every slot of a field whose example
\* tag is neither empty nor "-" (the JSON member, the form and formFile
\* values, the query value, the path-variable candidate) holds the text of
\* the example tag.
C2_ExampleWins ==
  Compiled =>
    /\ SlotsAligned(LastFields, last.params)
    /\ \A i \in 1..Len(LastFields) :
         ~NoExample(LastFields[i]) =>
           /\ \A text \in StringSlots(LastFields, i, last.params) :
                text = LastFields[i].Tag.example
           /\ \A value \in JsonSlots(LastFields, i, last.params) :
                value = StrV(LastFields[i].Tag.example)

\* A field with an example was registered while the caller defaults held
\* other texts under its json key and under its query key.
C2_Witness ==
  /\ Compiled
  /\ \E i \in 1..Len(LastFields) :
       /\ ~NoExample(LastFields[i])
       /\ HasDefault(LastFields[i], placeholderDefaults)
       /\ FirstDefault(LastFields[i], placeholderDefaults)
            \notin {<<>>, Dash, LastFields[i].Tag.example}
       /\ JsonSlots(LastFields, i, last.params) # {}
       /\ StringSlots(LastFields, i, last.params) # {}

(***************************************************************************)
(* C3.  Caller defaults.                                                   *)
(***************************************************************************)
\* C3 as stated: every slot of a field with no example and a caller default
\* under one of its role keys holds the default of the first such key,
\* whatever that default is.
C3_AnyDefaultFills ==
  Compiled =>
    \A i \in 1..Len(LastFields) :
      (NoExample(LastFields[i]) /\ HasDefault(LastFields[i], placeholderDefaults)) =>
        /\ \A text \in StringSlots(LastFields, i, last.params) :
             text = FirstDefault(LastFields[i], placeholderDefaults)
        /\ \A value \in JsonSlots(LastFields, i, last.params) :
             value = StrV(FirstDefault(LastFields[i], placeholderDefaults))

\* C3 amended: for a field with no example and a caller default under one of
\* its role keys, take the default of the first such key in the order json,
\* form, formFile, query, param. When that default is neither empty nor "-",
\* every slot of the field holds it, whatever the type of the field; when it
\* is empty or "-", the slots hold the zero value of the type of the field,
\* as they do for a field with no default, and no later key is looked at.
C3_DefaultFills ==
  Compiled =>
    \A i \in 1..Len(LastFields) :
      (NoExample(LastFields[i]) /\ HasDefault(LastFields[i], placeholderDefaults)) =>
        IF FirstDefault(LastFields[i], placeholderDefaults) \notin {<<>>, Dash}
          THEN /\ \A text \in StringSlots(LastFields, i, last.params) :
                    text = FirstDefault(LastFields[i], placeholderDefaults)
               /\ \A value \in JsonSlots(LastFields, i, last.params) :
                    value = StrV(FirstDefault(LastFields[i], placeholderDefaults))
          ELSE /\ \A text \in StringSlots(LastFields, i, last.params) :
                    text = Sprint(TypeZeroValue(LastFields[i].Type, TRUE))
               /\ \A value \in JsonSlots(LastFields, i, last.params) :
                    value = TypeZeroValue(LastFields[i].Type, FALSE)

\* A field with no example was registered whose json key and query key both
\* are keys of the caller defaults, with different texts: its slots hold the
\* text of the json key.
C3_Witness ==
  /\ Compiled
  /\ \E i \in 1..Len(LastFields) :
       /\ NoExample(LastFields[i])
       /\ RoleKeys(LastFields[i])[1] \in DOMAIN placeholderDefaults
       /\ RoleKeys(LastFields[i])[4] \in DOMAIN placeholderDefaults
       /\ placeholderDefaults[RoleKeys(LastFields[i])[1]] \notin {<<>>, Dash}
       /\ placeholderDefaults[RoleKeys(LastFields[i])[4]]
            # placeholderDefaults[RoleKeys(LastFields[i])[1]]
       /\ JsonSlots(LastFields, i, last.params)
            = {StrV(placeholderDefaults[RoleKeys(LastFields[i])[1]])}
       /\ StringSlots(LastFields, i, last.params)
            = {placeholderDefaults[RoleKeys(LastFields[i])[1]]}

(***************************************************************************)
(* C4.  Zero values.                                                       *)
(***************************************************************************)
RECURSIVE NativeZero(_)
\* The native zero value of a type: pointers unwrapped, a slice as one
\* element.
NativeZero(t) ==
  CASE t.Kind = "int" -> IntV(0)
    [] t.Kind = "bool" -> BoolV(FALSE)
    [] t.Kind = "string" -> StrV(<<>>)
    [] t.Kind = "chan" -> NilChanV
    [] t.Kind = "struct" -> ZeroStructV(t)
    [] t.Kind = "ptr" -> NativeZero(t.Elem[1])
    [] t.Kind = "slice" -> SliceV(<<NativeZero(t.Elem[1])>>)

RECURSIVE ZeroText(_)
\* The string rendering of the zero value of a type: for a record type the
\* JSON text of its zero instance.
ZeroText(t) ==
  CASE t.Kind = "int" -> <<"0">>
    [] t.Kind = "bool" -> S_false
    [] t.Kind = "string" -> <<>>
    [] t.Kind = "chan" -> NilAngle
    [] t.Kind = "struct" -> jsonZero(t).text
    [] t.Kind = "ptr" -> ZeroText(t.Elem[1])
    [] t.Kind = "slice" -> <<"[">> \o ZeroText(t.Elem[1]) \o <<"]">>

\* C4 as stated: for a field with no example and no caller default under any
\* of its role keys, the JSON member holds the native zero value of the type
\* and every form, formFile, query and path-variable slot holds the string
\* rendering of the zero value, for a record type the JSON text of its zero
\* instance.
C4_ZeroValues ==
  Compiled =>
    \A i \in 1..Len(LastFields) :
      (NoExample(LastFields[i]) /\ ~HasDefault(LastFields[i], placeholderDefaults)) =>
        /\ \A value \in JsonSlots(LastFields, i, last.params) :
             value = NativeZero(LastFields[i].Type)
        /\ \A text \in StringSlots(LastFields, i, last.params) :
             text = ZeroText(LastFields[i].Type)

\* The slots hold these zero values but for a record type whose zero instance
\* encoding/json returns an error for: its string slots hold "<nil>".
C4_ZeroValuesOrNil ==
  Compiled =>
    \A i \in 1..Len(LastFields) :
      (NoExample(LastFields[i]) /\ ~HasDefault(LastFields[i], placeholderDefaults)) =>
        /\ \A value \in JsonSlots(LastFields, i, last.params) :
             value = NativeZero(LastFields[i].Type)
        /\ \A text \in StringSlots(LastFields, i, last.params) :
             text = IF Kind(Deref(LastFields[i].Type)) = "struct"
                       /\ jsonZero(Deref(LastFields[i].Type)).res = "error"
                      THEN NilAngle
                      ELSE ZeroText(LastFields[i].Type)

(***************************************************************************)
(* C5.  The body mode.                                                     *)
(***************************************************************************)
\* Some field is routed to a form or a formFile parameter.
AnyForm(fields) ==
  \E i \in 1..Len(fields) : Routed(fields[i].Tag.form) \/ Routed(fields[i].Tag.formFile)

\* Some field is routed to the JSON body.
AnyJson(fields) == \E i \in 1..Len(fields) : Routed(fields[i].Tag.json)

\* C5: the body mode is decided in a fixed order. A record with a field
\* routed to form or formFile gets a form body, the one header Content-Type:
\* multipart/form-data and no JSON text, json fields or not; otherwise a
\* record with a field routed to json gets a JSON body and the one header
\* Content-Type: application/json; otherwise the request has no body mode and
\* no header.
C5_BodyMode ==
  Compiled =>
    IF AnyForm(LastFields)
      THEN /\ last.err = "nil"
           /\ last.request[1].Body.Mode = "formdata"
           /\ last.request[1].Body.FormData = last.params.formParams
           /\ last.request[1].Body.FormData # <<>>
           /\ last.request[1].Body.Raw = <<>>
           /\ last.request[1].Body.Options = ""
           /\ last.request[1].Header = <<ContentType("multipart/form-data")>>
    ELSE IF AnyJson(LastFields)
      THEN last.err = "nil" =>
             /\ last.request[1].Body.Mode = "raw"
             /\ last.request[1].Body.Options = "json"
             /\ last.request[1].Body.FormData = <<>>
             /\ {last.request[1].Body.Raw[m].Key :
                   m \in 1..Len(last.request[1].Body.Raw)}
                  = {LastFields[i].Tag.json :
                       i \in {j \in 1..Len(LastFields) : Routed(LastFields[j].Tag.json)}}
             /\ last.request[1].Header = <<ContentType("application/json")>>
    ELSE /\ last.err = "nil"
         /\ last.request[1].Body = NoBody
         /\ last.request[1].Header = <<>>

\* A record with a form field and a json field was registered.
C5_Witness ==
  /\ Compiled
  /\ AnyForm(LastFields)
  /\ AnyJson(LastFields)
  /\ last.request # <<>>
  /\ last.request[1].Body.Mode = "formdata"

(***************************************************************************)
(* C6 and C7.  The URL.                                                    *)
(***************************************************************************)
\* The segments of the registered path that begin with ":", in path order.
ColonSegments(path) ==
  LET BeginsWithColon(segment) == segment # <<>> /\ segment[1] = ":"
  IN SelectSeq(PathSegments(path), BeginsWithColon)

\* The fields routed to a path variable under the key, in order.
ParamFields(fields, key) ==
  LET Matches(field) == Routed(field.Tag.param) /\ field.Tag.param = key
  IN SelectSeq(fields, Matches)

\* The placeholder of a field as its string slots show it.
PlaceholderText(field, defaults) ==
  IF ~NoExample(field) THEN field.Tag.example
  ELSE IF HasDefault(field, defaults) /\ FirstDefault(field, defaults) \notin {<<>>, Dash}
    THEN FirstDefault(field, defaults)
  ELSE Sprint(TypeZeroValue(field.Type, TRUE))

\* The call returned an error only if a member of the JSON body has no
\* encoding.
OnlyEncodingFails ==
  last.err # "nil" =>
    /\ ~AnyForm(LastFields)
    /\ \E key \in DOMAIN last.params.jsonParams :
         jsonValue(last.params.jsonParams[key]) = "error"

\* C6: the URL of the compiled request has one variable per path segment that
\* begins with ":", in path order, keyed by the segment without the colon.
\* Its value is the placeholder of the first field routed to param under
\* that key; with no such field it is the segment itself, ":key", with an
\* empty description, and the call succeeds all the same. The path keeps its
\* ":key" segments and the raw URL is "{{base_url}}/" and the segments joined
\* with "/".
C6_UrlVariables ==
  Compiled =>
    /\ OnlyEncodingFails
    /\ last.err = "nil" =>
         LET url == last.request[1].URL
             segments == PathSegments(last.spec.path.s)
             colons == ColonSegments(last.spec.path.s)
         IN /\ url.Path = segments
            /\ url.Raw = BaseURL \o Slash \o Join(segments, Slash)
            /\ Len(url.Variables) = Len(colons)
            /\ \A k \in 1..Len(colons) :
                 LET key == Tail(colons[k])
                     matching == ParamFields(LastFields, key)
                 IN /\ url.Variables[k].Key = key
                    /\ IF matching = <<>>
                         THEN /\ url.Variables[k].Value = colons[k]
                              /\ url.Variables[k].Description = <<>>
                         ELSE url.Variables[k].Value
                                = PlaceholderText(matching[1], placeholderDefaults)

\* A path was registered with a variable a field matches and a variable no
\* field matches.
C6_Witness ==
  /\ Compiled
  /\ last.err = "nil"
  /\ \E k \in 1..Len(last.request[1].URL.Variables) :
       /\ ParamFields(LastFields, last.request[1].URL.Variables[k].Key) = <<>>
       /\ last.request[1].URL.Variables[k].Value
            = Colon \o last.request[1].URL.Variables[k].Key
  /\ \E k \in 1..Len(last.request[1].URL.Variables) :
       /\ ParamFields(LastFields, last.request[1].URL.Variables[k].Key) # <<>>
       /\ last.request[1].URL.Variables[k].Value
            # Colon \o last.request[1].URL.Variables[k].Key

\* C7 as stated: the URL variable of a ":key" segment that a field routed to
\* param matches carries the description tag of that field.
C7_DescriptionCarried ==
  (Compiled /\ last.err = "nil") =>
    \A k \in 1..Len(last.request[1].URL.Variables) :
      LET matching == ParamFields(LastFields, last.request[1].URL.Variables[k].Key)
      IN matching # <<>> =>
           last.request[1].URL.Variables[k].Description = matching[1].Tag.description


(***************************************************************************)
(* C8.  Folders are reused, never duplicated.                              *)
(***************************************************************************)
RECURSIVE FolderPaths(_, _)
\* The folders of the tree, each as the names from the root down to it.
FolderPaths(items, above) ==
  UNION { IF IsFolder(items[i])
            THEN {Append(above, items[i].Name)}
                 \cup FolderPaths(items[i].Items, Append(above, items[i].Name))
            ELSE {} : i \in 1..Len(items) }

\* The folder names of a registered path: all its segments but the last.
FolderSegments(path) == SubSeq(PathSegments(path), 1, Len(PathSegments(path)) - 1)

\* The folders the completed calls have asked for: every non-empty prefix of
\* the folder names of their paths.
FoldersAskedFor ==
  UNION { { SubSeq(FolderSegments(history[i].spec.path.s), 1, n) :
              n \in 1..Len(FolderSegments(history[i].spec.path.s)) } : i \in Completed }

\* C8: in every node of the tree, the root included, no two folders have one
\* name, and the folders of the tree are the folders the calls asked for, one
\* each: a folder that exists is reused, a folder is made only when missing.
C8_FoldersUnique ==
  /\ FoldersUnique(Items)
  /\ FolderPaths(Items, <<>>) = FoldersAskedFor

\* Two calls went through one folder: it holds both their items.
C8_Witness ==
  /\ Cardinality(Completed) = 2
  /\ \E i \in 1..Len(Items) : IsFolder(Items[i]) /\ Len(Items[i].Items) = 2

(***************************************************************************)
(* C9.  Requests are never merged.                                         *)
(***************************************************************************)
\* The requests filed at one place of the tree: under the folders, by name.
LeavesAt(folders, name) ==
  {l \in 1..Len(Leaves(Items, <<>>)) :
     /\ Leaves(Items, <<>>)[l].folders = folders
     /\ Leaves(Items, <<>>)[l].name = name}

\* The completed calls whose path is filed at that place.
CompletedAt(folders, name) ==
  {i \in Completed : PathSegments(history[i].spec.path.s) = Append(folders, name)}

C9_OneLeafPerCall ==
  /\ Len(Leaves(Items, <<>>)) = Cardinality(Completed)
  /\ \A i \in Completed :
       LET segments == PathSegments(history[i].spec.path.s)
           folders == SubSeq(segments, 1, Len(segments) - 1)
           name == segments[Len(segments)]
       IN Cardinality(LeavesAt(folders, name)) = Cardinality(CompletedAt(folders, name))

\* A completed call adds its request and leaves every other request as it
\* was; any other step leaves the requests as they were.
C9_LeavesKept ==
  IF RegisterStep /\ last'.err = "nil" /\ ~last'.panicked
    THEN \E k \in 1..Len(Leaves(Items', <<>>)) :
           /\ RemoveAt(Leaves(Items', <<>>), k) = Leaves(Items, <<>>)
           /\ Leaves(Items', <<>>)[k].request = last'.request[1]
           /\ Append(Leaves(Items', <<>>)[k].folders, Leaves(Items', <<>>)[k].name)
                = PathSegments(last'.spec.path.s)
    ELSE Leaves(Items', <<>>) = Leaves(Items, <<>>)

\* The call that follows a completed call with the same argument completes.
C9_SecondCompletes ==
  (RegisterStep /\ last.op = "Register" /\ last.err = "nil" /\ ~last.panicked
   /\ last'.spec = last.spec)
    => (last'.err = "nil" /\ ~last'.panicked)

C10_MalformedRejected ==
  (last.op = "Register" /\ Malformed(last.spec)) => (last.err # "nil" /\ ~last.panicked)

C10_ErrorChangesNothing ==
  (RegisterStep /\ last'.err # "nil")
    => UNCHANGED <<Items, Variables, placeholderDefaults>>

\* C10: Register returns an error, and recovers no panic, for an argument
\* that is malformed; and a call that returns an error, the encoding error of
\* the JSON body included, leaves the tree, the collection variables and the
\* caller defaults as they were.
C10_Errors ==
  /\ []C10_MalformedRejected
  /\ [][C10_ErrorChangesNothing]_vars

\* A malformed argument was rejected after a request had been filed.
C10_Witness ==
  /\ last.op = "Register"
  /\ Malformed(last.spec)
  /\ last.err # "nil"
  /\ Items # <<>>

(***************************************************************************)
(* C11.  The field walk returns.                                           *)
(***************************************************************************)
\* C11 as stated, as the way a walk ends: the walk of every record type, one
\* that embeds through a pointer its own type or a type that embeds it back
\* included, ends by returning, so that Register returns; it never ends with
\* the stack exhausted.
C11_WalkReturns == walk.pc # "stack overflow"

\* The declarations a walk of t can enter from t in at most n calls.
RECURSIVE WalkEnters(_, _)
WalkEnters(t, n) ==
  IF n = 0 THEN {}
  ELSE LET embedded == {WalkDecls[t][i].Target :
                          i \in {j \in 1..Len(WalkDecls[t]) :
                                   /\ WalkDecls[t][j].PkgPath = <<>>
                                   /\ EmbedsStruct(WalkDecls[t][j])}}
       IN embedded \cup UNION {WalkEnters(e, n - 1) : e \in embedded}

\* The walk of t comes back to t: t embeds itself, through exported embedded
\* fields.
EmbedsItself(t) == t \in WalkEnters(t, Cardinality(DOMAIN WalkDecls))

\* What does hold of C11: the stack is exhausted only in the walk of a type
\* that embeds itself, and the walk of every other type returns with every
\* frame gone.
C11_OnlyCyclesOverflow ==
  /\ walk.pc = "stack overflow" => EmbedsItself(walk.stack[1].t)
  /\ \A k \in 1..Len(walk.done) : ~EmbedsItself(walk.done[k])
  /\ walk.pc = "returned" => walk.stack = <<>>

====
